---- MODULE Spec2Model ----
(***************************************************************************)
(* Trip routes of trip-tracker-api (app/routes/trip_routes.js) over the    *)
(* Trip collection (app/models/trip.js).                                   *)
(*                                                                         *)
(* The store is the `trips` collection.  A request occupies the handler    *)
(* slot `req`: it is sent, its promise chain runs against the store, and   *)
(* its response is read by the client.  The only storage operation that    *)
(* outlives its request is the `trip.deleteOne()` of DELETE /trips/:id,    *)
(* whose promise the handler does not return: it is kept in                *)
(* `pendingDelete` until the store applies or rejects it.                  *)
(*                                                                         *)
(* Of the schema's four plain fields (date, country, city, description)    *)
(* the routes treat all alike; city and description are modelled.          *)
(* Request bodies are JSON objects of plain keys; ids are well-formed.     *)
(*                                                                         *)
(* Spec       every route, from the empty store; bodies name an owner.     *)
(* SpecUsers  every route, from the empty store; bodies carry an owner     *)
(*            and a users array.                                           *)
(* SpecPatch  PATCH /trips/:id on stored trips; bodies over the text       *)
(*            fields and owner.                                            *)
(* SpecRsvp   the rsvp and unrsvp routes on stored trips.                  *)
(* SpecRace   the rsvp and unrsvp requests of all users on one trip.       *)
(***************************************************************************)
EXTENDS Integers, Sequences, FiniteSets, TLC

\* Bounds of the model.
MaxTrips == 2      \* trips ever created (ObjectIds are never reused)
MaxLen == 2        \* length of a client-supplied users array

Users == {"A", "B"}
TripIds == 1..MaxTrips
NoUser == "none"
Undefined == "undefined"          \* a path the stored document does not have
TextVals == {"", "a"}             \* the blank string and a non-blank one

UserLists == UNION {[1..n -> Users] : n \in 0..MaxLen}

Range(s) == {s[i] : i \in 1..Len(s)}

Count(s, u) == Cardinality({i \in 1..Len(s) : s[i] = u})

\* ---- documents (tripSchema) ----
NoTrip == [owner |-> NoUser, users |-> <<>>, city |-> Undefined, description |-> Undefined]

\* ---- request bodies: req.body.trip as a JSON object ----
NoBody == [keys |-> {}, owner |-> NoUser, users |-> <<>>, city |-> "", description |-> ""]

MkBody(K, o, us, c, d) ==
  [keys |-> K,
   owner |-> IF "owner" \in K THEN o ELSE NoUser,
   users |-> IF "users" \in K THEN us ELSE <<>>,
   city |-> IF "city" \in K THEN c ELSE "",
   description |-> IF "description" \in K THEN d ELSE ""]

BodiesOver(K, lists, texts) ==
  {MkBody(D, o, us, c, d) : D \in SUBSET K, o \in Users, us \in lists, c \in texts, d \in texts}

\* ---- lib/remove_blank_fields: drop every key whose value is '' ----
Blank(body, k) == k # "users" /\ body[k] = ""

removeBlanks(body) ==
  [body EXCEPT !.keys = {k \in @ : ~Blank(body, k)}]

\* DeleteOwner without the delete.
DeleteOwnerKept(body) == body

\* ---- `delete req.body.trip.owner` ----
DeleteOwner(body) ==
  [body EXCEPT !.keys = @ \ {"owner"}, !.owner = NoUser]

\* ---- `req.body.trip.owner = req.user.id` ----
SetOwner(body, u) ==
  [body EXCEPT !.keys = @ \cup {"owner"}, !.owner = u]

\* ---- lib/custom_errors ----
handle404(doc) == doc # NoTrip

requireOwnership(u, doc) == doc.owner = u

\* Authorize without the ownership check.
AuthorizeAnyone(u, doc) == IF ~handle404(doc) THEN "NotFound" ELSE "ok"

\* Authorize with the ownership check ahead of the existence check.
AuthorizeOwnerFirst(u, doc) ==
  IF ~requireOwnership(u, doc) THEN "Forbidden"
  ELSE IF ~handle404(doc) THEN "NotFound"
  ELSE "ok"

\* ---- `.then(handle404)` followed by `requireOwnership(req, trip)` ----
Authorize(u, doc) ==
  IF ~handle404(doc) THEN "NotFound"
  ELSE IF ~requireOwnership(u, doc) THEN "Forbidden"
  ELSE "ok"

\* ---- Trip.create(doc): the document Mongoose stores for a body ----
NewDoc(body) ==
  [owner |-> body.owner,
   users |-> IF "users" \in body.keys THEN body.users ELSE <<>>,
   city |-> IF "city" \in body.keys THEN body.city ELSE Undefined,
   description |-> IF "description" \in body.keys THEN body.description ELSE Undefined]

\* Merge as a replacement of the document by the patch, owner aside.
MergeReplace(doc, p) == [NewDoc(p) EXCEPT !.owner = doc.owner]

\* ---- trip.updateOne(patch): $set of the keys the patch has ----
Merge(doc, p) ==
  [owner |-> IF "owner" \in p.keys THEN p.owner ELSE doc.owner,
   users |-> IF "users" \in p.keys THEN p.users ELSE doc.users,
   city |-> IF "city" \in p.keys THEN p.city ELSE doc.city,
   description |-> IF "description" \in p.keys THEN p.description ELSE doc.description]

\* AddToSet as a write of the requester's own array.
AddToSetOverwrite(us, u) == <<u>>

\* ---- { $addToSet: { users: u } } ----
AddToSet(us, u) == IF u \in Range(us) THEN us ELSE Append(us, u)

\* Pull as a removal of the first occurrence found at read time, written back
\* as the array without its head.
PullHead(us, u) == IF us = <<>> THEN us ELSE Tail(us)

\* ---- { $pull: { users: u } } ----
Pull(us, u) == SelectSeq(us, LAMBDA x : x # u)

VARIABLES trips, nextId, pendingDelete, req, creator, acked, lastRsvp

vars == <<trips, nextId, pendingDelete, req, creator, acked, lastRsvp>>

Idle ==
  [phase |-> "idle", user |-> NoUser, kind |-> "none", id |-> 0, raw |-> NoBody,
   body |-> NoBody, status |-> "none", failed |-> FALSE, result |-> {}]

Init ==
  /\ trips = [t \in TripIds |-> NoTrip]
  /\ nextId = 1
  /\ pendingDelete = {}
  /\ req = Idle
  /\ creator = [t \in TripIds |-> NoUser]
  /\ acked = {}
  /\ lastRsvp = [t \in TripIds |-> [u \in Users |-> "absent"]]

Exists(t) == t \in TripIds /\ trips[t] # NoTrip

\* Trip.findById(id): the stored document, or null.
findById(id) == IF id \in TripIds THEN trips[id] ELSE NoTrip

\* The response of the request in the slot; `body` is req.body.trip as the
\* middleware and the handler left it.
Respond(status, failed, result, body) ==
  [req EXCEPT !.phase = "done", !.status = status, !.failed = failed,
              !.result = result, !.body = body]

Sent(kind) == req.phase = "sent" /\ req.kind = kind

\* A client sends a request; the handler slot takes one request at a time.
\* Creation stops at MaxTrips, and a trip has at most one removal in flight.
Send(u, r) ==
  /\ req.phase = "idle"
  /\ r.kind = "create" => nextId <= MaxTrips
  /\ r.kind = "destroy" => r.id \notin pendingDelete
  /\ req' = [Idle EXCEPT !.phase = "sent", !.user = u, !.kind = r.kind, !.id = r.id,
                         !.raw = r.body, !.body = r.body]
  /\ UNCHANGED <<trips, nextId, pendingDelete, creator, acked, lastRsvp>>

\* The client reads the response.
Ack ==
  /\ req.phase = "done"
  /\ req' = Idle
  /\ UNCHANGED <<trips, nextId, pendingDelete, creator, acked, lastRsvp>>

\* GET /trips/owned
IndexOwned ==
  /\ Sent("owned")
  /\ \E ok \in BOOLEAN :
       req' = IF ok
              THEN Respond("200", FALSE, {t \in TripIds : Exists(t) /\ trips[t].owner = req.user}, req.body)
              ELSE Respond("Error", TRUE, {}, req.body)
  /\ UNCHANGED <<trips, nextId, pendingDelete, creator, acked, lastRsvp>>

\* GET /trips/openall
IndexOpen ==
  /\ Sent("openall")
  /\ \E ok \in BOOLEAN :
       req' = IF ok
              THEN Respond("200", FALSE, {t \in TripIds : Exists(t)}, req.body)
              ELSE Respond("Error", TRUE, {}, req.body)
  /\ UNCHANGED <<trips, nextId, pendingDelete, creator, acked, lastRsvp>>

\* GET /trips
Index ==
  /\ Sent("index")
  /\ \E ok \in BOOLEAN :
       req' = IF ok
              THEN Respond("200", FALSE, {t \in TripIds : Exists(t)}, req.body)
              ELSE Respond("Error", TRUE, {}, req.body)
  /\ UNCHANGED <<trips, nextId, pendingDelete, creator, acked, lastRsvp>>

\* GET /trips/:id
Show ==
  /\ Sent("show")
  /\ \E ok \in BOOLEAN :
       req' = IF ~ok THEN Respond("Error", TRUE, {}, req.body)
              ELSE IF ~handle404(findById(req.id)) THEN Respond("NotFound", FALSE, {}, req.body)
              ELSE Respond("200", FALSE, {req.id}, req.body)
  /\ UNCHANGED <<trips, nextId, pendingDelete, creator, acked, lastRsvp>>

\* POST /trips
Create ==
  /\ Sent("create")
  /\ LET body == SetOwner(req.body, req.user)
     IN \E ok \in BOOLEAN :
          IF ok
          THEN /\ trips' = [trips EXCEPT ![nextId] = NewDoc(body)]
               /\ creator' = [creator EXCEPT ![nextId] = req.user]
               /\ nextId' = nextId + 1
               /\ req' = [Respond("201", FALSE, {nextId}, body) EXCEPT !.id = nextId]
          ELSE /\ req' = Respond("Error", TRUE, {}, body)
               /\ UNCHANGED <<trips, creator, nextId>>
  /\ UNCHANGED <<pendingDelete, acked, lastRsvp>>

\* PATCH /trips/:id, up to the write: removeBlanks, delete owner, findById,
\* handle404, requireOwnership, and the issue of trip.updateOne(req.body.trip).
Update ==
  /\ Sent("update")
  /\ LET body == DeleteOwner(removeBlanks(req.body))
         doc == findById(req.id)
     IN \E ok \in BOOLEAN :
          req' = IF ~ok THEN Respond("Error", TRUE, {}, body)
                 ELSE IF Authorize(req.user, doc) # "ok"
                      THEN Respond(Authorize(req.user, doc), FALSE, {}, body)
                 ELSE [req EXCEPT !.phase = "writing", !.body = body]
  /\ UNCHANGED <<trips, nextId, pendingDelete, creator, acked, lastRsvp>>

\* PATCH /trips/:id, the write: the store applies updateOne({_id}, patch) to
\* the document if it is still there, and the chain answers 204.
UpdateOne ==
  /\ req.phase = "writing"
  /\ \E ok \in BOOLEAN :
       IF ok
       THEN /\ trips' = IF Exists(req.id)
                         THEN [trips EXCEPT ![req.id] = Merge(@, req.body)]
                         ELSE trips
            /\ req' = Respond("204", FALSE, {}, req.body)
       ELSE /\ req' = Respond("Error", TRUE, {}, req.body)
            /\ UNCHANGED trips
  /\ UNCHANGED <<nextId, pendingDelete, creator, acked, lastRsvp>>

\* PATCH /trips/rsvp/:id, without the history variable.
RsvpCore ==
  /\ Sent("rsvp")
  /\ LET body == removeBlanks(req.body)
     IN \E ok \in BOOLEAN :
          IF ok /\ Exists(req.id)
          THEN /\ trips' = [trips EXCEPT ![req.id].users = AddToSet(@, req.user)]
               /\ req' = Respond("204", FALSE, {}, body)
          ELSE /\ req' = IF ok THEN Respond("NotFound", FALSE, {}, body)
                               ELSE Respond("Error", TRUE, {}, body)
               /\ UNCHANGED trips
  /\ UNCHANGED <<nextId, pendingDelete, creator, acked>>

\* PATCH /trips/unrsvp/:id, without the history variable.
UnrsvpCore ==
  /\ Sent("unrsvp")
  /\ LET body == removeBlanks(req.body)
     IN \E ok \in BOOLEAN :
          IF ok /\ Exists(req.id)
          THEN /\ trips' = [trips EXCEPT ![req.id].users = Pull(@, req.user)]
               /\ req' = Respond("204", FALSE, {}, body)
          ELSE /\ req' = IF ok THEN Respond("NotFound", FALSE, {}, body)
                               ELSE Respond("Error", TRUE, {}, body)
               /\ UNCHANGED trips
  /\ UNCHANGED <<nextId, pendingDelete, creator, acked>>

Rsvp == RsvpCore /\ UNCHANGED lastRsvp

Unrsvp == UnrsvpCore /\ UNCHANGED lastRsvp

\* The same two routes, recording each user's last answered join or leave.
RsvpT ==
  /\ RsvpCore
  /\ lastRsvp' = IF req'.status = "204"
                  THEN [lastRsvp EXCEPT ![req.id][req.user] = "join"]
                  ELSE lastRsvp

UnrsvpT ==
  /\ UnrsvpCore
  /\ lastRsvp' = IF req'.status = "204"
                  THEN [lastRsvp EXCEPT ![req.id][req.user] = "leave"]
                  ELSE lastRsvp

\* DELETE /trips/:id: findById, handle404, requireOwnership, then
\* trip.deleteOne() is called and its promise dropped, so the chain goes on
\* to sendStatus(204) while the removal is still in flight.
Destroy ==
  /\ Sent("destroy")
  /\ LET doc == findById(req.id)
     IN \E ok \in BOOLEAN :
          IF ok /\ Authorize(req.user, doc) = "ok"
          THEN /\ pendingDelete' = pendingDelete \cup {req.id}
               /\ acked' = acked \cup {req.id}
               /\ req' = Respond("204", FALSE, {}, req.body)
          ELSE /\ req' = IF ~ok THEN Respond("Error", TRUE, {}, req.body)
                         ELSE Respond(Authorize(req.user, doc), FALSE, {}, req.body)
               /\ UNCHANGED <<pendingDelete, acked>>
  /\ UNCHANGED <<trips, nextId, creator, lastRsvp>>

\* The store settles a removal in flight: the document is removed, or the
\* removal fails and its rejection reaches no handler.
DeleteOne ==
  /\ \E t \in pendingDelete, ok \in BOOLEAN :
       /\ pendingDelete' = pendingDelete \ {t}
       /\ trips' = IF ok THEN [trips EXCEPT ![t] = NoTrip] ELSE trips
  /\ UNCHANGED <<nextId, req, creator, acked, lastRsvp>>

\* ---- the requests clients send ----
Rq(kind, id, body) == [kind |-> kind, id |-> id, body |-> body]

\* The requests of every route, with the bodies of create and update drawn from B.
RequestsWith(B) ==
  {Rq(k, 0, NoBody) : k \in {"owned", "openall", "index"}}
  \cup {Rq("create", 0, b) : b \in B}
  \cup {Rq("update", t, b) : t \in TripIds, b \in B}
  \cup {Rq(k, t, NoBody) : k \in {"show", "rsvp", "unrsvp", "destroy"}, t \in TripIds}

\* Spec: every route; a body names an owner or is empty.
OwnerBodies == BodiesOver({"owner"}, {<<>>}, {""})

Requests == RequestsWith(OwnerBodies)

Next ==
  \/ \E u \in Users, r \in Requests : Send(u, r)
  \/ IndexOwned
  \/ IndexOpen
  \/ Index
  \/ Show
  \/ Create
  \/ Update
  \/ UpdateOne
  \/ Rsvp
  \/ Unrsvp
  \/ Destroy
  \/ DeleteOne
  \/ Ack

Spec == Init /\ [][Next]_vars

\* SpecUsers: every route; a body carries an owner, a users array, both or neither.
UsersBodies == BodiesOver({"owner", "users"}, UserLists, {""})

UsersRequests == RequestsWith(UsersBodies)

NextUsers ==
  \/ \E u \in Users, r \in UsersRequests : Send(u, r)
  \/ IndexOwned
  \/ IndexOpen
  \/ Index
  \/ Show
  \/ Create
  \/ Update
  \/ UpdateOne
  \/ Rsvp
  \/ Unrsvp
  \/ Destroy
  \/ DeleteOne
  \/ Ack

SpecUsers == Init /\ [][NextUsers]_vars

\* SpecPatch: PATCH /trips/:id on stored trips, bodies over the text fields.
PatchBodies == BodiesOver({"owner", "city", "description"}, {<<>>}, TextVals)

PatchRequests == {Rq("update", t, b) : t \in TripIds, b \in PatchBodies}

StoredTexts == {Undefined, "a"}

InitPatch ==
  /\ trips \in [TripIds -> {[owner |-> o, users |-> <<"B">>, city |-> c, description |-> d] :
                             o \in Users, c \in StoredTexts, d \in StoredTexts}]
  /\ nextId = MaxTrips + 1
  /\ pendingDelete = {}
  /\ req = Idle
  /\ creator = [t \in TripIds |-> trips[t].owner]
  /\ acked = {}
  /\ lastRsvp = [t \in TripIds |-> [u \in Users |-> "absent"]]

NextPatch ==
  \/ \E u \in Users, r \in PatchRequests : Send(u, r)
  \/ Update
  \/ UpdateOne
  \/ Ack

SpecPatch == InitPatch /\ [][NextPatch]_vars

\* SpecRsvp: joins and leaves only, on trips as create and update leave them.
RsvpBodies == {NoBody} \cup {MkBody({"owner", "users"}, o, <<o>>, "", "") : o \in Users}

RsvpRequests == {Rq(k, t, b) : k \in {"rsvp", "unrsvp"}, t \in TripIds, b \in RsvpBodies}

InitRsvp ==
  /\ trips \in [TripIds -> {NoTrip} \cup
                           {[owner |-> o, users |-> us, city |-> Undefined, description |-> Undefined] :
                              o \in Users, us \in UserLists}]
  /\ nextId = MaxTrips + 1
  /\ pendingDelete = {}
  /\ req = Idle
  /\ creator = [t \in TripIds |-> trips[t].owner]
  /\ acked = {}
  /\ lastRsvp = [t \in TripIds |-> [u \in Users |->
                    IF u \in Range(trips[t].users) THEN "member" ELSE "absent"]]

NextRsvp ==
  \/ \E u \in Users, r \in RsvpRequests : Send(u, r)
  \/ Rsvp
  \/ Unrsvp
  \/ Ack

SpecRsvp == InitRsvp /\ [][NextRsvp]_vars

\* SpecRace: the joins and leaves of all users against one stored trip, in
\* every order in which the store can apply them, with each user's last
\* answered request recorded.
FirstTrip == CHOOSE t \in TripIds : \A s \in TripIds : t <= s

RaceRequests == {Rq(k, FirstTrip, NoBody) : k \in {"rsvp", "unrsvp"}}

InitRace ==
  /\ InitRsvp
  /\ \A t \in TripIds : (trips[t] # NoTrip) = (t = FirstTrip)

NextRace ==
  \/ \E u \in Users, r \in RaceRequests : Send(u, r)
  \/ RsvpT
  \/ UnrsvpT
  \/ Ack

SpecRace == InitRace /\ [][NextRace]_vars

(***************************************************************************)
(* Properties                                                              *)
(***************************************************************************)

\* The step in which the handler of the request in the slot runs.
Handled == req.phase = "sent" /\ req' # req

StoreUnchanged == trips' = trips /\ pendingDelete' = pendingDelete /\ nextId' = nextId

C3_MissingIsNotFound ==
  [][(Handled /\ req.kind \in {"update", "destroy"} /\ ~Exists(req.id))
       => /\ req'.phase = "done"
          /\ req'.failed \/ req'.status = "NotFound"
          /\ req'.status # "Forbidden"
          /\ StoreUnchanged]_vars

\* An update of a removed trip by a user who never owned it was answered not found.
C3_Witness ==
  /\ req.phase = "done" /\ req.kind = "update" /\ req.status = "NotFound"
  /\ creator[req.id] \notin {NoUser, req.user}
  /\ ~Exists(req.id)

\* C4: no stored trip's users array holds the same user id twice.
C4_NoDuplicateUsers ==
  \A t \in TripIds : Exists(t) => \A u \in Users : Count(trips[t].users, u) <= 1

\* C5: on a stored trip a join answers 204 and leaves exactly one occurrence
\* of the requester, changing nothing if the requester was already in users;
\* a leave by a requester not in users answers 204 and changes nothing.
C5_RsvpIdempotent ==
  [][(Handled /\ Exists(req.id) /\ ~req'.failed)
       => LET old == trips[req.id].users
              new == trips'[req.id].users
          IN /\ req.kind = "rsvp"
                  => /\ req'.status = "204"
                     /\ Count(new, req.user) = 1
                     /\ req.user \in Range(old) => new = old
             /\ (req.kind = "unrsvp" /\ req.user \notin Range(old))
                  => /\ req'.status = "204"
                     /\ new = old]_vars

\* C6: a join or leave of a stored trip answers 204 for owners and others
\* alike and changes the requester's membership of that trip and nothing else.
C6_RsvpTouchesOnlyRequester ==
  [][(Handled /\ req.kind \in {"rsvp", "unrsvp"} /\ Exists(req.id) /\ ~req'.failed)
       => LET old == trips[req.id]
              new == trips'[req.id]
          IN /\ req'.status = "204"
             /\ (req.user \in Range(new.users)) = (req.kind = "rsvp")
             /\ \A v \in Users \ {req.user} : Count(new.users, v) = Count(old.users, v)
             /\ new.owner = old.owner
             /\ new.city = old.city
             /\ new.description = old.description
             /\ \A t \in TripIds \ {req.id} : trips'[t] = trips[t]
             /\ pendingDelete' = pendingDelete /\ nextId' = nextId]_vars

\* A non-owner whose body named users and an owner joined a trip that another
\* user attends; both are in users and the owner is as before.
C6_Witness ==
  /\ req.phase = "done" /\ req.kind = "rsvp" /\ req.status = "204"
  /\ req.raw.keys = {"owner", "users"}
  /\ Exists(req.id) /\ trips[req.id].owner # req.user
  /\ Range(trips[req.id].users) = Users
  /\ lastRsvp[req.id][req.user] = "absent"
  /\ \E t \in TripIds \ {req.id} : Exists(t)

\* C7: once a DELETE has been answered 204, a GET of that id is answered not
\* found (when its lookup itself succeeds).
C7_DeletedIsGone ==
  (req.phase = "done" /\ req.kind = "show" /\ req.id \in acked /\ ~req.failed)
    => req.status = "NotFound"

\* C8: when PATCH /trips/:id writes to a stored trip, blank fields of the body
\* are not in the change-set and keep their stored value, non-blank fields
\* take the submitted value, and every other field and trip is untouched.
C8_PatchApplies ==
  [][(req.phase = "writing" /\ req' # req /\ req'.status = "204" /\ Exists(req.id))
       => /\ \A k \in {"users", "city", "description"} :
               /\ (k \in req.raw.keys /\ Blank(req.raw, k)) => k \notin req.body.keys
               /\ trips'[req.id][k] =
                    IF k \in req.raw.keys /\ ~Blank(req.raw, k)
                    THEN req.raw[k] ELSE trips[req.id][k]
          /\ trips'[req.id].owner = trips[req.id].owner
          /\ \A t \in TripIds \ {req.id} : trips'[t] = trips[t]]_vars

\* A patch with a blank city and a new description was applied: the city is
\* the stored one, the description the submitted one, users as they were.
C8_Witness ==
  /\ req.phase = "done" /\ req.kind = "update" /\ req.status = "204"
  /\ req.raw.keys = {"city", "description"}
  /\ req.raw.city = "" /\ req.raw.description = "a"
  /\ req.body.keys = {"description"}
  /\ trips[req.id].city = "a" /\ trips[req.id].description = "a"
  /\ trips[req.id].users = <<"B">>

\* C9: a request whose storage operation failed is answered with an error:
\* no answered request failed without the error status, and no DELETE
\* answered 204 had its removal fail (the trip still stored, none in flight).
C9_FailureIsReported ==
  /\ (req.phase = "done" /\ req.failed) => req.status = "Error"
  /\ \A t \in acked : t \in pendingDelete \/ ~Exists(t)

====
